---- MODULE Spec2Model ----
(***************************************************************************)
(* A model of SublimeLinter's lint/util.py: the environment resolver       *)
(* (create_environment, debug_print_env), the executable locator (which,   *)
(* find_executables), the process runner (communicate) with the live       *)
(* process registry it shares with other threads, and the output           *)
(* post-processor (decode, ANSI_COLOR_RE).                                 *)
(*                                                                         *)
(* Text is a sequence of one-character strings; "ESC" stands for \033.     *)
(* Bytes are the same sequences, where "BAD" is a byte that is not valid   *)
(* UTF-8.                                                                  *)
(***************************************************************************)
EXTENDS Integers, Sequences, FiniteSets, TLC

VARIABLES
    \* ---- output post-processor workload
    fh,             \* the raw bytes handed to _post_process_fh (None: absent)
    text,           \* the results of successive ANSI_COLOR_RE.sub passes
    \* ---- environment resolver / executable locator
    os_environ,     \* os.environ: variable name -> value
    paths_setting,  \* persist.settings['paths']: platform -> configured value
    platform,       \* sublime.platform()
    info_enabled,   \* logger.isEnabledFor(logging.INFO)
    lru_cache,      \* debug_print_env's lru_cache(maxsize=1): the cached arguments
    path_log,       \* the 'PATH:' entries logged so far, oldest first
    env_calls,      \* the PATH returned by each create_environment call so far
    env_result,     \* the mapping the last create_environment call returned
    isfile,         \* the paths for which os.path.isfile holds
    xok,            \* the paths for which os.access(path, X_OK) holds
    found,          \* what the last find_executables / which call produced
    \* ---- process runner and live process registry
    pc,             \* where each thread stands in communicate()
    call,           \* the arguments of each thread's communicate() call
    child,          \* the state of the child process each thread launched
    outcome,        \* what each thread's call produced so far
    active_procs,   \* persist.active_procs: owner key -> list of handles
    lock,           \* the holder of persist.active_procs_lock
    cancel          \* the owner key an external canceller is terminating

textVars == <<fh, text>>
envVars == <<os_environ, paths_setting, platform, info_enabled, lru_cache,
             path_log, env_calls, env_result>>
fsVars == <<isfile, xok, found>>
runVars == <<pc, call, child, outcome, active_procs, lock, cancel>>
vars == <<textVars, envVars, fsVars, runVars>>

None == "None"

\* A pipe that was not opened: proc.communicate gives None for it.
NoPipe == <<None>>

\* ------------------------------------------------------------------ bounds

MaxLen == 6
MaxPasses == 2
MaxEnvCalls == 4
NumThreads == 2

\* ------------------------------------------------- output post-processor

ESC == "ESC"
REPLACEMENT == "?"

IsParam(ch) == ch \in {"0", "1", ";"}

\* The end (exclusive) of the run of [0-9;] characters of s starting at i.
RECURSIVE ParamRunEnd(_, _)
ParamRunEnd(s, i) ==
    IF i <= Len(s) /\ IsParam(s[i]) THEN ParamRunEnd(s, i + 1) ELSE i

\* ANSI_COLOR_RE.match at position i: the position after the match, 0 for none.
\* The class [0-9;] excludes 'm', so the greedy run never has to back off.
MatchEnd(s, i) ==
    IF i + 1 <= Len(s) /\ s[i] = ESC /\ s[i + 1] = "["
    THEN LET e == ParamRunEnd(s, i + 2)
         IN IF e <= Len(s) /\ s[e] = "m" THEN e + 1 ELSE 0
    ELSE 0

\* re.sub('', s) from position i: leftmost matches, non-overlapping, one pass.
RECURSIVE SubFrom(_, _)
SubFrom(s, i) ==
    IF i > Len(s) THEN <<>>
    ELSE LET e == MatchEnd(s, i)
         IN IF e > 0 THEN SubFrom(s, e) ELSE <<s[i]>> \o SubFrom(s, i + 1)

\* A slip: re.sub(..., count=1), which removes the first match only.
RECURSIVE SubFirstFrom(_, _)
SubFirstFrom(s, i) ==
    IF i > Len(s) THEN <<>>
    ELSE LET e == MatchEnd(s, i)
         IN IF e > 0 THEN SubSeq(s, e, Len(s))
            ELSE <<s[i]>> \o SubFirstFrom(s, i + 1)

StripAnsiFirstOnly(s) == SubFirstFrom(s, 1)

StripAnsi(s) == SubFrom(s, 1)

\* bytes.decode('utf8') succeeds iff no byte is invalid.
ValidUtf8(bytes) == \A i \in 1..Len(bytes) : bytes[i] # "BAD"

\* bytes.decode(locale.getpreferredencoding(), errors='replace')
DecodeReplace(bytes) ==
    [i \in 1..Len(bytes) |-> IF bytes[i] = "BAD" THEN REPLACEMENT ELSE bytes[i]]

decode(bytes) ==
    IF bytes = NoPipe \/ bytes = <<>> THEN <<>>
    ELSE IF ValidUtf8(bytes) THEN bytes ELSE DecodeReplace(bytes)

post_process_fh(bytes) == StripAnsi(decode(bytes))

\* str.strip() is non-empty: some character is not whitespace.
NonBlank(s) == \E i \in 1..Len(s) : s[i] # " "

\* ------------------------------------------------- environment resolver

SEP == ":"
HOME == "/home/u"
CWD == "/cwd"
MAXSIZE == 1

Platforms == {"windows", "linux"}

\* os.pathsep.join(list): list is a sequence of strings.
RECURSIVE Join(_)
Join(list) ==
    IF list = <<>> THEN <<>>
    ELSE IF Len(list) = 1 THEN list[1]
    ELSE list[1] \o <<SEP>> \o Join(Tail(list))

\* str.split(os.pathsep) from position i, cur being the segment read so far.
RECURSIVE SplitFrom(_, _, _)
SplitFrom(s, i, cur) ==
    IF i > Len(s) THEN <<cur>>
    ELSE IF s[i] = SEP THEN <<cur>> \o SplitFrom(s, i + 1, <<>>)
    ELSE SplitFrom(s, i + 1, Append(cur, s[i]))

Split(s) == SplitFrom(s, 1, <<>>)

\* os.path.expanduser: a leading ~ becomes the home directory.
expanduser(p) ==
    IF p = <<>> THEN p
    ELSE IF p[1] = "~" THEN <<HOME>> \o Tail(p)
    ELSE IF p[1] = "~/bin" THEN <<"/home/u/bin">> \o Tail(p)
    ELSE p

\* os.path.abspath: a relative path is joined to the working directory.
abspath(p) ==
    IF p = <<>> THEN <<CWD>>
    ELSE IF p[1] = "rel" THEN <<"/cwd/rel">> \o Tail(p)
    ELSE p

\* convert_type(value, []): a list is returned as it is, a string wrapped.
convert_type_list(value) ==
    IF value.kind = "list" THEN value.list ELSE <<value.str>>

\* The list `paths` of create_environment, after the comprehension.
ConfiguredPaths(setting, plat) ==
    IF setting[plat].kind # "absent"
    THEN LET raw == convert_type_list(setting[plat])
         IN [i \in 1..Len(raw) |-> abspath(expanduser(raw[i]))]
    ELSE <<>>

\* A slip: the configured entries appended to PATH instead of prepended.
AugmentedPathAppended(paths, inherited) ==
    inherited \o <<SEP>> \o Join(paths)

\* os.pathsep.join(paths) + os.pathsep + env['PATH']
AugmentedPath(paths, inherited) ==
    Join(paths) \o <<SEP>> \o inherited

\* The mapping create_environment returns: a copy of os.environ, PATH replaced
\* when paths are configured.
NewEnv(environ, setting, plat) ==
    LET paths == ConfiguredPaths(setting, plat)
    IN IF paths # <<>>
       THEN [environ EXCEPT !.PATH = AugmentedPath(paths, environ.PATH)]
       ELSE environ

\* A slip: lru_cache(maxsize=None), which remembers every argument.
CacheAfterUnbounded(cache, arg) ==
    <<arg>> \o SelectSeq(cache, LAMBDA a : a # arg)

\* lru_cache(maxsize=1): the argument of this call becomes the most recent
\* entry, and the entries past maxsize are evicted.
CacheAfter(cache, arg) ==
    LET all == <<arg>> \o SelectSeq(cache, LAMBDA a : a # arg)
    IN SubSeq(all, 1, IF Len(all) < MAXSIZE THEN Len(all) ELSE MAXSIZE)

CacheHit(cache, arg) == \E i \in 1..Len(cache) : cache[i] = arg

\* create_environment(): the state it leaves and the mapping it returns.
create_environment ==
    LET env == NewEnv(os_environ, paths_setting, platform)
        logs == info_enabled /\ env.PATH # <<>>
    IN /\ env_result' = env
       /\ env_calls' = Append(env_calls, env.PATH)
       /\ lru_cache' = IF logs THEN CacheAfter(lru_cache, env.PATH) ELSE lru_cache
       /\ path_log' = IF logs /\ ~CacheHit(lru_cache, env.PATH)
                      THEN Append(path_log, env.PATH) ELSE path_log
       /\ UNCHANGED <<os_environ, paths_setting, platform, info_enabled>>

\* The user edits the "paths" setting of one platform.
PathValues ==
    { [kind |-> "absent", str |-> <<>>, list |-> <<>>],
      [kind |-> "str", str |-> <<"/a">>, list |-> <<>>],
      [kind |-> "list", str |-> <<>>, list |-> << >>],
      [kind |-> "list", str |-> <<>>, list |-> << <<"~/bin">>, <<"rel">> >>] }

SetPaths ==
    /\ \E p \in Platforms, v \in PathValues :
          /\ paths_setting[p] # v
          /\ paths_setting' = [paths_setting EXCEPT ![p] = v]
    /\ UNCHANGED <<os_environ, platform, info_enabled, lru_cache, path_log,
                   env_calls, env_result>>
    /\ UNCHANGED <<textVars, fsVars, runVars>>

SetLogLevel ==
    /\ info_enabled' = ~info_enabled
    /\ UNCHANGED <<os_environ, paths_setting, platform, lru_cache, path_log,
                   env_calls, env_result>>
    /\ UNCHANGED <<textVars, fsVars, runVars>>

CreateEnvironment ==
    /\ Len(env_calls) < MaxEnvCalls
    /\ create_environment
    /\ UNCHANGED <<textVars, fsVars, runVars>>

\* --------------------------------------------------- executable locator

\* A path is the directory os.path.join put first and the file name after it;
\* stem and ext are what os.path.splitext makes of the name.
JoinPath(base, name) == [dir |-> base, stem |-> name.stem, ext |-> name.ext]

\* can_exec(path)
can_exec(path) == path \in isfile /\ path \in xok

\* A slip: the extensions probed in another order.
EXTENSIONS_REORDERED == <<".cmd", ".exe", ".bat">>

\* The extensions probed on Windows, in the order of the loop.
EXTENSIONS == <<".exe", ".cmd", ".bat">>

\* What one PATH entry yields (the body of the loop of find_executables).
YieldsOf(base, name) ==
    LET path == JoinPath(expanduser(base), name)
    IN IF platform = "windows" /\ path.ext = ""
       THEN SelectSeq([i \in 1..Len(EXTENSIONS) |->
                          [path EXCEPT !.ext = EXTENSIONS[i]]],
                      can_exec)
       ELSE IF can_exec(path) THEN <<path>> ELSE <<>>

RECURSIVE YieldsOfAll(_, _)
YieldsOfAll(bases, name) ==
    IF bases = <<>> THEN <<>>
    ELSE YieldsOf(Head(bases), name) \o YieldsOfAll(Tail(bases), name)

\* list(find_executables(executable)), given the environment it resolved.
find_executables(env, name) == YieldsOfAll(Split(env.PATH), name)

\* which(cmd): the first path find_executables yields, or None.
which(env, name) ==
    LET all == find_executables(env, name)
    IN IF all # <<>> THEN <<all[1]>> ELSE <<>>

Names ==
    { [stem |-> "tool", ext |-> ""], [stem |-> "tool", ext |-> ".exe"],
      [stem |-> "tool", ext |-> ".cmd"], [stem |-> "tool", ext |-> ".bat"] }

FindExecutables ==
    /\ Len(env_calls) < MaxEnvCalls
    /\ \E name \in Names :
          found' = [op |-> "find_executables", name |-> name,
                    result |-> find_executables(
                        NewEnv(os_environ, paths_setting, platform), name)]
    /\ create_environment
    /\ UNCHANGED <<isfile, xok>>
    /\ UNCHANGED <<textVars, runVars>>

Which ==
    /\ Len(env_calls) < MaxEnvCalls
    /\ \E name \in Names :
          found' = [op |-> "which", name |-> name,
                    result |-> which(
                        NewEnv(os_environ, paths_setting, platform), name)]
    /\ create_environment
    /\ UNCHANGED <<isfile, xok>>
    /\ UNCHANGED <<textVars, runVars>>

\* ------------------------------------------------- post-processor workload

TextChars == {ESC, "[", "0", "m", "a"}

SeqsUpTo(S, n) == UNION {[1..k -> S] : k \in 0..n}

PostProcessFh ==
    /\ text = <<>>
    /\ text' = <<post_process_fh(fh)>>
    /\ UNCHANGED <<fh, envVars, fsVars, runVars>>

\* A caller strips text that was stripped before.
StripAgain ==
    /\ text # <<>>
    /\ Len(text) < MaxPasses
    /\ text' = Append(text, StripAnsi(text[Len(text)]))
    /\ UNCHANGED <<fh, envVars, fsVars, runVars>>

\* ------------------------------------------------------- initial states

NoValue == [kind |-> "absent", str |-> <<>>, list |-> <<>>]

TextIdle == fh = NoPipe /\ text = <<>>

EnvIdle ==
    /\ lru_cache = <<>>
    /\ path_log = <<>>
    /\ env_calls = <<>>
    /\ env_result = [PATH |-> <<>>, HOME |-> <<>>]

FsDirs == {<<"/a">>, <<"/b">>}

FsPaths == {JoinPath(d, n) : d \in FsDirs, n \in Names}

FsIdle ==
    /\ isfile = {}
    /\ xok = FsPaths
    /\ found = [op |-> None, name |-> [stem |-> "", ext |-> ""], result |-> <<>>]

InheritedPaths == {<<"/b", SEP, "/a">>, <<>>}

\* ------------------------------------------------------- process runner

STREAM_STDOUT == 1
STREAM_STDERR == 2
STREAM_BOTH == STREAM_STDOUT + STREAM_STDERR

Threads == 1..NumThreads

\* Nobody holds active_procs_lock.
Free == 0
\* The external actor that cancels an owner's processes.
Canceller == NumThreads + 1

Keys == {None, "b1", "b2"}

NoLinter ==
    [present |-> FALSE, view |-> FALSE, bid |-> None, file |-> FALSE,
     on_stderr |-> FALSE]

\* _linter: absent, or an object with a view (or none), the view with a buffer
\* id and perhaps a file name, and an on_stderr that is callable or not.
Linters ==
    {NoLinter}
    \cup [present : {TRUE}, view : {TRUE}, bid : {"b1", "b2"}, file : BOOLEAN,
          on_stderr : BOOLEAN]
    \cup [present : {TRUE}, view : {FALSE}, bid : {None}, file : {FALSE},
          on_stderr : BOOLEAN]

\* The arguments of communicate(): code and cwd are given or None, env is
\* given or None.
AllCalls ==
    [linter : Linters, code : BOOLEAN,
     output_stream : {STREAM_STDOUT, STREAM_STDERR, STREAM_BOTH},
     env : BOOLEAN, cwd : BOOLEAN]

NoCall ==
    [linter |-> NoLinter, code |-> FALSE, output_stream |-> STREAM_STDOUT,
     env |-> TRUE, cwd |-> FALSE]

\* What a child may write to a pipe.
AllOuts ==
    { <<>>, <<" ">>, <<"a">>, <<ESC, "[", "0", ";", "1", "m", "a">>, <<"BAD", "a">> }

\* bid = view.buffer_id() if view else None, a slip: the key left at None.
BufferKeyDropped(c) == None

\* bid = view.buffer_id() if view else None
BufferKey(c) ==
    IF c.linter.present /\ c.linter.view THEN c.linter.bid ELSE None

\* make_nice_log_message: rel_filename is assigned when the view has a file
\* name and cwd is given, or when there is no file name; it is read when
\* is_stdin. The call raises UnboundLocalError when it is read unassigned.
make_nice_log_message(is_stdin, cwd, linter) ==
    LET filename == linter.present /\ linter.view /\ linter.file
        assigned == (filename /\ cwd) \/ ~filename
    IN IF is_stdin /\ ~assigned THEN "UnboundLocalError" ELSE "message"

NoOutcome ==
    [status |-> "pending", exc |-> "", ret |-> <<>>, launch |-> "",
     out |-> <<NoPipe, NoPipe>>, error_logs |-> 0, notify_failure |-> 0,
     on_stderr |-> <<>>]

\* list.remove(x): the list without the first x.
RECURSIVE RemoveFirst(_, _)
RemoveFirst(list, x) ==
    IF list = <<>> THEN <<>>
    ELSE IF Head(list) = x THEN Tail(list)
    ELSE <<Head(list)>> \o RemoveFirst(Tail(list), x)

Contains(list, x) == \E i \in 1..Len(list) : list[i] = x

\* A slip: on_stderr called with whatever stderr holds, blank or not.
SelectResultAlwaysCalls(c, out) ==
    IF c.output_stream = STREAM_STDOUT
    THEN [ret |-> post_process_fh(out[1]), on_stderr |-> <<>>]
    ELSE IF c.output_stream = STREAM_STDERR
    THEN [ret |-> post_process_fh(out[2]), on_stderr |-> <<>>]
    ELSE IF c.linter.present /\ c.linter.on_stderr
    THEN [ret |-> post_process_fh(out[1]),
          on_stderr |-> <<post_process_fh(out[2])>>]
    ELSE [ret |-> post_process_fh(out[1]) \o post_process_fh(out[2]),
          on_stderr |-> <<>>]

\* The result communicate() selects from out, and the calls of on_stderr.
SelectResult(c, out) ==
    IF c.output_stream = STREAM_STDOUT
    THEN [ret |-> post_process_fh(out[1]), on_stderr |-> <<>>]
    ELSE IF c.output_stream = STREAM_STDERR
    THEN [ret |-> post_process_fh(out[2]), on_stderr |-> <<>>]
    ELSE IF c.linter.present /\ c.linter.on_stderr
    THEN LET stdout == post_process_fh(out[1])
             stderr == post_process_fh(out[2])
         IN [ret |-> stdout,
             on_stderr |-> IF NonBlank(stderr) THEN <<stderr>> ELSE <<>>]
    ELSE [ret |-> post_process_fh(out[1]) \o post_process_fh(out[2]),
          on_stderr |-> <<>>]

\* if env is None: env = create_environment()
ResolveEnv(c) ==
    IF c.env THEN UNCHANGED envVars ELSE create_environment

\* communicate() up to the except clause: subprocess.Popen raises.
LaunchFails(t, calls) ==
    /\ pc[t] = "idle"
    /\ \E c \in calls :
          /\ call' = [call EXCEPT ![t] = c]
          /\ ResolveEnv(c)
          /\ IF make_nice_log_message(c.code, c.cwd, c.linter) = "message"
             THEN outcome' = [outcome EXCEPT ![t] =
                      [@ EXCEPT !.status = "returned", !.launch = "failed",
                                !.error_logs = 1,
                                !.notify_failure =
                                    IF c.linter.present THEN 1 ELSE 0]]
             ELSE outcome' = [outcome EXCEPT ![t] =
                      [@ EXCEPT !.status = "raised", !.launch = "failed",
                                !.exc = "UnboundLocalError"]]
    /\ pc' = [pc EXCEPT ![t] = "done"]
    /\ UNCHANGED <<child, active_procs, lock, cancel, textVars, fsVars>>

\* communicate() up to the registration: subprocess.Popen returns a process,
\* and the call is logged when INFO is enabled.
LaunchOk(t, calls) ==
    /\ pc[t] = "idle"
    /\ \E c \in calls :
          /\ call' = [call EXCEPT ![t] = c]
          /\ ResolveEnv(c)
          /\ IF info_enabled
                /\ make_nice_log_message(c.code, c.cwd, c.linter) # "message"
             THEN /\ outcome' = [outcome EXCEPT ![t] =
                        [@ EXCEPT !.status = "raised", !.launch = "ok",
                                  !.exc = "UnboundLocalError"]]
                  /\ pc' = [pc EXCEPT ![t] = "done"]
             ELSE /\ outcome' = [outcome EXCEPT ![t] = [@ EXCEPT !.launch = "ok"]]
                  /\ pc' = [pc EXCEPT ![t] = "register"]
    /\ child' = [child EXCEPT ![t] = "running"]
    /\ UNCHANGED <<active_procs, lock, cancel, textVars, fsVars>>

\* with persist.active_procs_lock: (entering, before the append)
AcquireRegister(t) ==
    /\ pc[t] = "register"
    /\ lock = Free
    /\ lock' = t
    /\ pc' = [pc EXCEPT ![t] = "registering"]
    /\ UNCHANGED <<call, child, outcome, active_procs, cancel>>
    /\ UNCHANGED <<textVars, envVars, fsVars>>

\* A slip: proc.communicate moved inside the with block, the lock kept.
ReleasedKept(t) == t

\* The lock's holder when thread t leaves a with block.
Released(t) == Free

\* persist.active_procs[bid].append(proc), and the with block left.
Register(t) ==
    /\ pc[t] = "registering"
    /\ active_procs' = [active_procs EXCEPT ![BufferKey(call[t])] = Append(@, t)]
    /\ lock' = Released(t)
    /\ pc' = [pc EXCEPT ![t] = "waiting"]
    /\ UNCHANGED <<call, child, outcome, cancel>>
    /\ UNCHANGED <<textVars, envVars, fsVars>>

\* The child process ends by itself.
ChildExits(t) ==
    /\ child[t] = "running"
    /\ child' = [child EXCEPT ![t] = "exited"]
    /\ UNCHANGED <<pc, call, outcome, active_procs, lock, cancel>>
    /\ UNCHANGED <<textVars, envVars, fsVars>>

\* out = proc.communicate(code) returns: the child has ended and the pipes
\* that were opened are drained.
Collect(t, outs) ==
    /\ pc[t] = "waiting"
    /\ child[t] \in {"exited", "terminated"}
    /\ \E so \in outs, se \in outs :
          outcome' = [outcome EXCEPT ![t].out =
              << IF call[t].output_stream \in {STREAM_STDOUT, STREAM_BOTH}
                 THEN so ELSE NoPipe,
                 IF call[t].output_stream \in {STREAM_STDERR, STREAM_BOTH}
                 THEN se ELSE NoPipe >>]
    /\ pc' = [pc EXCEPT ![t] = "finally"]
    /\ UNCHANGED <<call, child, active_procs, lock, cancel>>
    /\ UNCHANGED <<textVars, envVars, fsVars>>

\* A slip: the removal after the call instead of in a finally clause.
AfterRaiseNoFinally == "done"

\* Where an exception of proc.communicate leaves the call: the finally clause.
AfterRaise == "finally"

\* out = proc.communicate(code) raises.
CollectRaises(t) ==
    /\ pc[t] = "waiting"
    /\ outcome' = [outcome EXCEPT ![t].exc = "CollectError",
                                  ![t].status =
                                      IF AfterRaise = "done" THEN "raised" ELSE @]
    /\ pc' = [pc EXCEPT ![t] = AfterRaise]
    /\ UNCHANGED <<call, child, active_procs, lock, cancel>>
    /\ UNCHANGED <<textVars, envVars, fsVars>>

\* finally: with persist.active_procs_lock: (entering, before the remove)
AcquireDeregister(t) ==
    /\ pc[t] = "finally"
    /\ lock = Free
    /\ lock' = t
    /\ pc' = [pc EXCEPT ![t] = "deregistering"]
    /\ UNCHANGED <<call, child, outcome, active_procs, cancel>>
    /\ UNCHANGED <<textVars, envVars, fsVars>>

\* persist.active_procs[bid].remove(proc), the with block left, and then the
\* exception of proc.communicate propagated or the result selected.
Deregister(t) ==
    /\ pc[t] = "deregistering"
    /\ LET k == BufferKey(call[t])
           o == outcome[t]
           r == SelectResult(call[t], o.out)
       IN /\ active_procs' = [active_procs EXCEPT ![k] = RemoveFirst(@, t)]
          /\ outcome' = [outcome EXCEPT ![t] =
                IF ~Contains(active_procs[k], t)
                THEN [o EXCEPT !.status = "raised", !.exc = "ValueError"]
                ELSE IF o.exc # "" THEN [o EXCEPT !.status = "raised"]
                ELSE [o EXCEPT !.status = "returned", !.ret = r.ret,
                               !.on_stderr = r.on_stderr]]
    /\ lock' = Released(t)
    /\ pc' = [pc EXCEPT ![t] = "done"]
    /\ UNCHANGED <<call, child, cancel>>
    /\ UNCHANGED <<textVars, envVars, fsVars>>

\* ------------------------------------------------------------ canceller

\* The external actor takes the registry lock to cancel owner key k, under
\* which a process is still running.
CancelAcquire ==
    /\ lock = Free
    /\ cancel = ""
    /\ \E k \in Keys :
          /\ \E i \in 1..Len(active_procs[k]) : child[active_procs[k][i]] = "running"
          /\ cancel' = k
    /\ lock' = Canceller
    /\ UNCHANGED <<pc, call, child, outcome, active_procs>>
    /\ UNCHANGED <<textVars, envVars, fsVars>>

\* It terminates every handle under the key and releases the lock.
CancelTerminate ==
    /\ lock = Canceller
    /\ child' = [t \in Threads |->
                    IF Contains(active_procs[cancel], t) /\ child[t] = "running"
                    THEN "terminated" ELSE child[t]]
    /\ cancel' = ""
    /\ lock' = Free
    /\ UNCHANGED <<pc, call, outcome, active_procs>>
    /\ UNCHANGED <<textVars, envVars, fsVars>>

RunIdle ==
    /\ pc = [t \in Threads |-> "idle"]
    /\ call = [t \in Threads |-> NoCall]
    /\ child = [t \in Threads |-> "none"]
    /\ outcome = [t \in Threads |-> NoOutcome]
    /\ active_procs = [k \in Keys |-> <<>>]
    /\ lock = Free
    /\ cancel = ""

\* ------------------------------------------------------- specifications

EnvFixed ==
    /\ os_environ = [PATH |-> <<"/b", SEP, "/a">>, HOME |-> <<HOME>>]
    /\ paths_setting = [p \in Platforms |-> NoValue]
    /\ platform = "linux"
    /\ info_enabled = TRUE

\* The calls the concurrent workload makes: no owner or the owner of either
\* buffer, with a working directory and no input, and one call with input and
\* no working directory.
ConcCalls ==
    { c \in AllCalls :
        /\ c.linter \in {NoLinter} \cup { l \in Linters : l.view /\ l.file /\ ~l.on_stderr }
        /\ c.env /\ c.output_stream = STREAM_STDOUT
        /\ \/ ~c.code /\ c.cwd
           \/ c.code /\ ~c.cwd /\ c.linter.bid = "b1" }

ConcOuts == {<<"a">>}

Step(t, calls, outs) ==
    \/ LaunchFails(t, calls)
    \/ LaunchOk(t, calls)
    \/ AcquireRegister(t)
    \/ Register(t)
    \/ ChildExits(t)
    \/ Collect(t, outs)
    \/ CollectRaises(t)
    \/ AcquireDeregister(t)
    \/ Deregister(t)

\* Concurrent communicate() calls and a canceller.
Init == TextIdle /\ EnvFixed /\ EnvIdle /\ FsIdle /\ RunIdle

Next ==
    \/ \E t \in Threads : Step(t, ConcCalls, ConcOuts)
    \/ CancelAcquire
    \/ CancelTerminate

Spec == Init /\ [][Next]_vars

\* The scheduler runs every thread that can take a step: a thread that waits
\* for the lock gets it once it stays free, a thread in a with block leaves
\* it, and proc.communicate returns once the child has ended.
Fairness ==
    /\ \A t \in Threads :
          /\ WF_vars(AcquireRegister(t))
          /\ WF_vars(Register(t))
          /\ WF_vars(Collect(t, ConcOuts))
          /\ WF_vars(AcquireDeregister(t))
          /\ WF_vars(Deregister(t))
    /\ WF_vars(CancelTerminate)

\* The calls of the workload checked under fairness: no owner, or the owner
\* of one buffer.
FairCalls == { c \in ConcCalls : ~c.code /\ c.linter.bid # "b2" }

NextFair ==
    \/ \E t \in Threads : Step(t, FairCalls, ConcOuts)
    \/ CancelAcquire
    \/ CancelTerminate

FairSpec == Init /\ [][NextFair]_vars /\ Fairness

\* One communicate() call, over all its arguments and outputs.
InitCall ==
    /\ TextIdle /\ EnvIdle /\ FsIdle /\ RunIdle
    /\ os_environ = [PATH |-> <<"/b", SEP, "/a">>, HOME |-> <<HOME>>]
    /\ paths_setting = [p \in Platforms |-> NoValue]
    /\ platform = "linux"
    /\ info_enabled \in BOOLEAN

NextCall ==
    \/ Step(1, AllCalls, AllOuts)
    \/ CancelAcquire
    \/ CancelTerminate

SpecCall == InitCall /\ [][NextCall]_vars

\* The post-processor applied to every short byte string.
InitText ==
    /\ fh \in SeqsUpTo(TextChars, MaxLen) \cup {NoPipe}
    /\ text = <<>>
    /\ EnvFixed /\ EnvIdle /\ FsIdle /\ RunIdle

NextText == PostProcessFh \/ StripAgain

SpecText == InitText /\ [][NextText]_vars

\* create_environment() called again and again while the settings change.
InitEnv ==
    /\ TextIdle /\ EnvIdle /\ FsIdle /\ RunIdle
    /\ os_environ \in [PATH : InheritedPaths, HOME : {<<HOME>>}]
    /\ paths_setting = [p \in Platforms |-> NoValue]
    /\ platform \in Platforms
    /\ info_enabled \in BOOLEAN

NextEnv == CreateEnvironment \/ SetPaths \/ SetLogLevel

SpecEnv == InitEnv /\ [][NextEnv]_vars

\* The executable locator over small file systems.
FsFiles ==
    { p \in FsPaths : p.dir = <<"/a">> \/ p.ext \in {"", ".exe"} }

InitWhich ==
    /\ TextIdle /\ EnvIdle /\ RunIdle
    /\ os_environ = [PATH |-> <<"/b", SEP, "/a">>, HOME |-> <<HOME>>]
    /\ paths_setting \in
          { [p \in Platforms |-> IF p = q THEN v ELSE NoValue] :
              q \in Platforms,
              v \in {NoValue, [NoValue EXCEPT !.kind = "str", !.str = <<"/a">>]} }
    /\ platform \in Platforms
    /\ info_enabled = TRUE
    /\ isfile \in SUBSET FsFiles
    /\ xok \in {FsPaths, FsPaths \ {JoinPath(<<"/a">>, [stem |-> "tool", ext |-> ".exe"])}}
    /\ found = [op |-> None, name |-> [stem |-> "", ext |-> ""], result |-> <<>>]

NextWhich == FindExecutables \/ Which

SpecWhich == InitWhich /\ [][NextWhich]_vars

\* ================================================================ claims

\* ---- C6

\* The text _post_process_fh stripped: the decoded bytes.
Decoded == decode(fh)

\* A proper prefix of an SGR sequence (ESC, ESC [, ESC [ and parameters) that
\* is not itself the start of a sequence is immediately followed by a
\* complete sequence.
SplitSequence(x) ==
    \E p \in 1..Len(x) :
        /\ x[p] = ESC
        /\ MatchEnd(x, p) = 0
        /\ LET q == IF p + 1 <= Len(x) /\ x[p + 1] = "["
                    THEN ParamRunEnd(x, p + 2) ELSE p + 1
           IN MatchEnd(x, q) > 0

\* C6 as stated: strip_ansi is idempotent, for all text x the second pass
\* gives what the first pass gave.
C6_StripIdempotent == Len(text) >= 2 => text[2] = text[1]

\* C6 amended: the second pass gives what the first pass gave for every text
\* in which no proper prefix of an SGR sequence is immediately followed by a
\* complete SGR sequence.
C6_StripIdempotentUnsplit ==
    (Len(text) >= 2 /\ ~SplitSequence(Decoded)) => text[2] = text[1]

\* Text with an SGR sequence with a parameter, none split, has been stripped
\* twice and some text is left.
C6_Witness ==
    /\ Len(text) >= 2
    /\ ~SplitSequence(Decoded)
    /\ Len(Decoded) - Len(text[1]) >= 4
    /\ text[1] # <<>>

\* ---- C7

\* The i-th directory of the resolved PATH, user-home shorthand expanded.
ResolvedDirs == Split(env_result.PATH)

\* The candidates of name, in the order the claim gives: directory by
\* directory, and on Windows for a name without extension .exe, .cmd, .bat.
C7_Candidates(name) ==
    LET dirs == ResolvedDirs
        exts == <<".exe", ".cmd", ".bat">>
    IN IF platform = "windows" /\ name.ext = ""
       THEN [k \in 1..(3 * Len(dirs)) |->
                [dir |-> expanduser(dirs[((k - 1) \div 3) + 1]),
                 stem |-> name.stem, ext |-> exts[((k - 1) % 3) + 1]]]
       ELSE [k \in 1..Len(dirs) |->
                [dir |-> expanduser(dirs[k]), stem |-> name.stem,
                 ext |-> name.ext]]

C7_Expected(name) ==
    SelectSeq(C7_Candidates(name), LAMBDA p : p \in isfile /\ p \in xok)

\* C7: find_executables yields the candidates that are executable regular
\* files, in order, and which returns the first of them or nothing.
C7_FindExecutables ==
    /\ found.op = "find_executables" => found.result = C7_Expected(found.name)
    /\ found.op = "which" =>
          found.result = IF C7_Expected(found.name) = <<>> THEN <<>>
                         ELSE <<C7_Expected(found.name)[1]>>

\* On Windows a directory holds tool.exe and tool.bat but not tool, an earlier
\* directory of PATH holds none of them, and which('tool') gave tool.exe.
C7_Witness ==
    /\ platform = "windows"
    /\ found.op = "which"
    /\ found.name = [stem |-> "tool", ext |-> ""]
    /\ JoinPath(<<"/a">>, [stem |-> "tool", ext |-> ""]) \notin isfile
    /\ JoinPath(<<"/a">>, [stem |-> "tool", ext |-> ".bat"]) \in isfile
    /\ ResolvedDirs = << <<"/b">>, <<"/a">> >>
    /\ found.result = <<JoinPath(<<"/a">>, [stem |-> "tool", ext |-> ".exe"])>>

\* ---- C8

\* The configured entries of the current platform, as the settings give them.
C8_Entries ==
    LET v == paths_setting[platform]
    IN IF v.kind = "str" THEN <<v.str>>
       ELSE IF v.kind = "list" THEN v.list ELSE <<>>

\* The absolute form of a configured entry.
C8_Normal(entry) ==
    IF entry = <<"~/bin">> THEN "/home/u/bin"
    ELSE IF entry = <<"rel">> THEN "/cwd/rel"
    ELSE entry[1]

\* The PATH the claim gives: each configured entry followed by a separator,
\* then the inherited PATH.
C8_ExpectedPath ==
    LET n == Len(C8_Entries)
        inherited == os_environ.PATH
    IN IF n = 0 THEN inherited
       ELSE [i \in 1..(2 * n + Len(inherited)) |->
                IF i > 2 * n THEN inherited[i - 2 * n]
                ELSE IF i % 2 = 0 THEN SEP
                ELSE C8_Normal(C8_Entries[(i + 1) \div 2])]

\* C8: every create_environment call leaves os.environ as it was and returns
\* the inherited variables with PATH as the claim gives it, however many calls
\* came before.
C8_CreateEnvironment ==
    [][env_calls' # env_calls =>
          /\ os_environ' = os_environ
          /\ env_result'.HOME = os_environ.HOME
          /\ env_result'.PATH = C8_ExpectedPath]_vars

\* Two calls in a row under configured paths: the second PATH carries the
\* prefix once.
C8_Witness ==
    /\ Len(env_calls) >= 2
    /\ env_calls[Len(env_calls)] = env_calls[Len(env_calls) - 1]
    /\ os_environ.PATH = <<"/b", SEP, "/a">>
    /\ env_result.PATH = <<"/home/u/bin", SEP, "/cwd/rel", SEP, "/b", SEP, "/a">>

\* ---- C10

\* C10 as stated: each distinct PATH value is logged exactly once, so no
\* value is in the log twice.
C10_LoggedOncePerValue ==
    \A i, j \in 1..Len(path_log) : i # j => path_log[i] # path_log[j]

\* C10 amended: a call with INFO enabled and a non-empty PATH logs it exactly
\* when it differs from the PATH logged last (a cache of one entry); a value
\* that comes back after another one is logged again.
C10_LoggedOncePerChange ==
    [][env_calls' # env_calls =>
          LET p == env_result'.PATH
          IN path_log' =
                IF /\ info_enabled
                   /\ p # <<>>
                   /\ (path_log = <<>> \/ path_log[Len(path_log)] # p)
                THEN Append(path_log, p) ELSE path_log]_vars

\* Four calls gave A, A, B, A: the log holds A, B, A.
C10_Witness ==
    /\ Len(env_calls) = 4
    /\ env_calls[1] = env_calls[2]
    /\ env_calls[1] = env_calls[4]
    /\ env_calls[1] # env_calls[3]
    /\ path_log = <<env_calls[1], env_calls[3], env_calls[4]>>

\* ---- C1

\* The handles in the list registered under key k.
Registered(k) == {active_procs[k][i] : i \in 1..Len(active_procs[k])}

\* The owner key of thread t's call, as the call's arguments give it.
C1_OwnerKey(t) ==
    IF call[t].linter.present /\ call[t].linter.view
    THEN call[t].linter.bid ELSE None

C9_LockNotHeldWaiting ==
    /\ [](\A t \in Threads : pc[t] = "waiting" => lock # t)
    /\ [][active_procs' # active_procs =>
             /\ lock \in Threads
             /\ pc[lock] \in {"registering", "deregistering"}
             /\ pc'[lock] # pc[lock]]_vars

\* One call waits for its child while another holds the lock to register.
C9_Witness ==
    \E t, u \in Threads :
        /\ t # u
        /\ pc[t] = "waiting" /\ child[t] = "running"
        /\ pc[u] = "registering" /\ lock = u

\* ---- C5

\* No call of key k is between its launch and its return.
NoCallInFlight(k) ==
    \A t \in Threads : C1_OwnerKey(t) = k => pc[t] \in {"idle", "done"}

\* C5: a call whose child has ended, terminated by the canceller or by
\* itself, returns for good, and the entry of a key holds no handle whenever
\* no call of that key is in flight.
C5_NoStaleHandles ==
    /\ \A t \in Threads :
          (child[t] \in {"exited", "terminated"}) ~> [](pc[t] = "done")
    /\ [](\A k \in Keys : NoCallInFlight(k) => active_procs[k] = <<>>)

\* A canceller terminated the child of a call, the call has returned and the
\* registry is empty.
C5_Witness ==
    \E t \in Threads :
        /\ child[t] = "terminated"
        /\ pc[t] = "done" /\ outcome[t].status = "returned"
        /\ \A k \in Keys : active_procs[k] = <<>>

\* ---- C2

\* C2: a call whose launch failed returned the empty string, logged one
\* error, notified the owner once if there is one and not otherwise, and the
\* registry is as it was.
C2_LaunchFailure ==
    \A t \in Threads :
        outcome[t].launch = "failed" =>
            /\ outcome[t].status = "returned"
            /\ outcome[t].ret = <<>>
            /\ outcome[t].error_logs = 1
            /\ outcome[t].notify_failure = IF call[t].linter.present THEN 1 ELSE 0
            /\ \A k \in Keys : active_procs[k] = <<>>

\* ---- C3

\* C3: every call that is over handed its caller a string: it returned, and
\* did not raise.
C3_AlwaysString ==
    \A t \in Threads : pc[t] = "done" => outcome[t].status = "returned"

\* ---- C4

\* The result the claim gives for a call and the output of its child.
C4_Expected(c, out) ==
    LET stdout == post_process_fh(out[1])
        stderr == post_process_fh(out[2])
        declared == c.linter.present /\ c.linter.on_stderr
    IN CASE c.output_stream = STREAM_STDOUT -> [ret |-> stdout, calls |-> <<>>]
         [] c.output_stream = STREAM_STDERR -> [ret |-> stderr, calls |-> <<>>]
         [] c.output_stream = STREAM_BOTH /\ declared ->
                [ret |-> stdout,
                 calls |-> IF \A i \in 1..Len(stderr) : stderr[i] = " "
                           THEN <<>> ELSE <<stderr>>]
         [] c.output_stream = STREAM_BOTH /\ ~declared ->
                [ret |-> stdout \o stderr, calls |-> <<>>]

\* C4: a call that launched its child and returned gave the result the
\* selector names, and called on_stderr as the claim says.
C4_ResultSelection ==
    \A t \in Threads :
        (outcome[t].launch = "ok" /\ outcome[t].status = "returned") =>
            /\ outcome[t].ret = C4_Expected(call[t], outcome[t].out).ret
            /\ outcome[t].on_stderr = C4_Expected(call[t], outcome[t].out).calls

\* Both streams were asked for by an owner that declares on_stderr; stdout
\* held coloured text and stderr only blanks: the call returned the text
\* without its colour codes and on_stderr was not called.
C4_Witness ==
    \E t \in Threads :
        /\ outcome[t].status = "returned" /\ outcome[t].launch = "ok"
        /\ call[t].output_stream = STREAM_BOTH
        /\ call[t].linter.present /\ call[t].linter.on_stderr
        /\ outcome[t].out = << <<ESC, "[", "0", ";", "1", "m", "a">>, <<" ">> >>
        /\ outcome[t].ret = <<"a">>
        /\ outcome[t].on_stderr = <<>>

====
